---- MODULE Spec2Model ----
(***************************************************************************)
(* Model of import-iis-sites.py: the Importer class that reads the table   *)
(* printed by `Get-IISSite | ft Name,State,Bindings`, parses it into site  *)
(* dictionaries, merges per-site attributes from the configuration file,   *)
(* writes the rendered Icinga 2 file and optionally reloads Icinga 2.      *)
(*                                                                         *)
(* Python str values are sequences of one-character strings, bytes values  *)
(* are sequences of byte codes, dicts are functions (records), lists are   *)
(* sequences, and the site dicts live in a heap so that aliasing between   *)
(* the parser's list and the merger's list is visible.                     *)
(***************************************************************************)
EXTENDS Integers, Sequences, FiniteSets, TLC

VARIABLES
    pc,          \* position of the run inside __init__ / handle()
    self,        \* the Importer instance's attributes (its __dict__)
    conf,        \* the dict loaded from the configuration file
    std_out,     \* self.std_out: the bytes returned by the remote command
    listing,     \* the table the remote host printed, row by row (structured)
    heap,        \* the site dict objects, by object id
    iis_sites,   \* handle(): the list returned by _parse_iis_sites (object ids)
    site_attributes, \* handle(): the local holding _get_attributes()'s result
    sites,       \* handle(): the list returned by _compile_sites_objects
    output_file, \* the output file on disk
    log,         \* the messages logged by handle() and its callees, in order
    raised       \* the exception that ended the run, if any

vars == <<pc, self, conf, std_out, listing, heap, iis_sites, site_attributes,
          sites, output_file, log, raised>>

(***************************************************************************)
(* Bounds of the model.                                                    *)
(***************************************************************************)
\* rows of a multi-row listing
MaxRows == 3
\* binding fragments inside the braces of a row
MaxFrags == 2
\* whitespace characters between two fields of a row
MaxGap == 2

(***************************************************************************)
(* Characters, bytes and str helpers.                                      *)
(***************************************************************************)
\* The characters Python's \s and str.strip() treat as whitespace (those of
\* the model's alphabet).
Whitespace == {" ", "\t", "\n", "\r"}

Digits == {"0", "1", "2", "3", "4", "5", "6", "7", "8", "9"}

\* The code points of the alphabet: what bytes.decode('utf-8') yields for a
\* single byte below 0x80.
Ascii ==
    (9 :> "\t") @@ (10 :> "\n") @@ (13 :> "\r") @@ (32 :> " ") @@
    (42 :> "*") @@ (44 :> ",") @@ (46 :> ".") @@ (58 :> ":") @@
    (48 :> "0") @@ (49 :> "1") @@ (50 :> "2") @@ (51 :> "3") @@ (52 :> "4") @@
    (53 :> "5") @@ (54 :> "6") @@ (55 :> "7") @@ (56 :> "8") @@ (57 :> "9") @@
    (78 :> "N") @@ (83 :> "S") @@ (97 :> "a") @@ (98 :> "b") @@ (100 :> "d") @@
    (101 :> "e") @@ (102 :> "f") @@ (104 :> "h") @@ (111 :> "o") @@
    (112 :> "p") @@ (114 :> "r") @@ (115 :> "s") @@ (116 :> "t") @@
    (119 :> "w") @@ (120 :> "x") @@
    (123 :> "{") @@ (125 :> "}")

\* str.encode: the byte code of each character.
Encode(s) == [i \in 1..Len(s) |-> CHOOSE n \in DOMAIN Ascii : Ascii[n] = s[i]]

\* bytes.decode('utf-8') succeeds on single bytes below 0x80; a lone byte
\* 0x80..0xFF is not valid UTF-8 and raises UnicodeDecodeError.
Decodable(b) == \A i \in 1..Len(b) : b[i] < 128

Decode(b) == [i \in 1..Len(b) |-> Ascii[b[i]]]

\* a str of n spaces
Spaces(n) == [i \in 1..n |-> " "]

RECURSIVE Join(_, _)
\* sep.join(parts)
Join(parts, sep) ==
    IF parts = <<>> THEN <<>>
    ELSE IF Len(parts) = 1 THEN parts[1]
    ELSE parts[1] \o sep \o Join(Tail(parts), sep)

\* s[i:] starts with sep
StartsAt(s, i, sep) ==
    /\ i + Len(sep) - 1 <= Len(s)
    /\ \A j \in 1..Len(sep) : s[i + j - 1] = sep[j]

RECURSIVE SplitFrom(_, _, _, _)
\* re.split(sep, s) for a literal separator: scan from i, the current piece
\* starting at `from`.
SplitFrom(s, sep, from, i) ==
    IF i > Len(s) THEN << SubSeq(s, from, Len(s)) >>
    ELSE IF StartsAt(s, i, sep)
         THEN << SubSeq(s, from, i - 1) >>
              \o SplitFrom(s, sep, i + Len(sep), i + Len(sep))
         ELSE SplitFrom(s, sep, from, i + 1)

Split(s, sep) == SplitFrom(s, sep, 1, 1)

\* str.strip(): drop leading and trailing whitespace.
Strip(s) ==
    LET keep == {i \in 1..Len(s) : s[i] \notin Whitespace}
    IN  IF keep = {} THEN <<>>
        ELSE SubSeq(s, CHOOSE i \in keep : \A j \in keep : i <= j,
                       CHOOSE i \in keep : \A j \in keep : i >= j)

(***************************************************************************)
(* re.search with the two patterns of the source.  A pattern is a sequence *)
(* of items [cls, arg, q]: a character class (or literal) and a quantifier *)
(* "1", "+" or "*"; both patterns are anchored with ^ and $.  The matcher  *)
(* is Python's: greedy, backtracking, first match in priority order.       *)
(***************************************************************************)
Item(cls, arg, q) == [cls |-> cls, arg |-> arg, q |-> q]

\* r'^(\S+)\s+(.+)\s+{(.+)}\s*$'
RowPattern ==
    << Item("NotSpace", "", "+"), Item("Space", "", "+"), Item("Any", "", "+"),
       Item("Space", "", "+"), Item("Lit", "{", "1"), Item("Any", "", "+"),
       Item("Lit", "}", "1"), Item("Space", "", "*") >>

\* the items of RowPattern that are groups 1, 2, 3
RowGroups == <<1, 3, 6>>

\* r'^(\S+)\s(.+):([0-9]+):(\S+)$'
BindingPattern ==
    << Item("NotSpace", "", "+"), Item("Space", "", "1"), Item("Any", "", "+"),
       Item("Lit", ":", "1"), Item("Digit", "", "+"), Item("Lit", ":", "1"),
       Item("NotSpace", "", "+") >>

\* the items of BindingPattern that are groups 1, 2, 3, 4
BindingGroups == <<1, 3, 5, 7>>

\* whether character c is matched by the item's class
ClassHas(it, c) ==
    CASE it.cls = "NotSpace" -> c \notin Whitespace
      [] it.cls = "Space"    -> c \in Whitespace
      [] it.cls = "Any"      -> c # "\n"
      [] it.cls = "Digit"    -> c \in Digits
      [] it.cls = "Lit"      -> c = it.arg

RECURSIVE RunLen(_, _, _)
\* how many characters from position i on the item can take at most
RunLen(it, s, i) ==
    IF i > Len(s) \/ ~ClassHas(it, s[i]) THEN 0
    ELSE IF it.q = "1" THEN 1
    ELSE 1 + RunLen(it, s, i + 1)

\* $ matches at the end of the string and before a final newline
AtEnd(s, i) == i = Len(s) + 1 \/ (i = Len(s) /\ s[i] = "\n")

NoMatch == [ok |-> FALSE, ends |-> <<>>]

RECURSIVE ReMatch(_, _, _, _)
RECURSIVE ReTry(_, _, _, _, _)
\* match items k.. of pat against s from position i; ends[j] is the position
\* after the text taken by item k+j-1
ReMatch(pat, s, k, i) ==
    IF k > Len(pat) THEN [ok |-> AtEnd(s, i), ends |-> <<>>]
    ELSE LET m == RunLen(pat[k], s, i)
         IN  IF m < (IF pat[k].q = "*" THEN 0 ELSE 1) THEN NoMatch
             ELSE ReTry(pat, s, k, i, m)

\* item k takes c characters; on failure of the rest, it gives one back
ReTry(pat, s, k, i, c) ==
    LET r == ReMatch(pat, s, k + 1, i + c)
    IN  IF r.ok THEN [ok |-> TRUE, ends |-> <<i + c>> \o r.ends]
        ELSE IF c > (IF pat[k].q = "*" THEN 0 ELSE 1)
             THEN ReTry(pat, s, k, i, c - 1)
             ELSE NoMatch

\* re.search(pattern, s) for a pattern starting with ^
ReSearch(pat, s) == ReMatch(pat, s, 1, 1)

\* the text taken by item k of a successful match m
ItemText(s, m, k) ==
    SubSeq(s, IF k = 1 THEN 1 ELSE m.ends[k - 1], m.ends[k] - 1)

(***************************************************************************)
(* Python values.  A value stored in a dict or an attribute carries its    *)
(* Python type; lists are sequences, dict keys are plain strings.          *)
(***************************************************************************)
PyNone == [py |-> "None"]
PyBool(b) == [py |-> "bool", b |-> b]
PyStr(s) == [py |-> "str", s |-> s]
PyInt(n) == [py |-> "int", n |-> n]
PyDict(d) == [py |-> "dict", d |-> d]

\* the truth value Python's `if v:` gives
Truthy(v) ==
    CASE v.py = "None" -> FALSE
      [] v.py = "bool" -> v.b
      [] v.py = "str"  -> v.s # <<>>
      [] v.py = "int"  -> v.n # 0
      [] v.py = "dict" -> DOMAIN v.d # {}

\* d[key] = value on a dict
SetItem(d, key, value) == (key :> value) @@ d

(***************************************************************************)
(* Importer._parse_bindings                                                *)
(***************************************************************************)
\* int(s) for a string of decimal digits (the source never calls it)
DigitValue(c) == CHOOSE n \in 0..9 : Ascii[48 + n] = c

RECURSIVE ToInt(_)
ToInt(s) ==
    IF s = <<>> THEN 0
    ELSE 10 * ToInt(SubSeq(s, 1, Len(s) - 1)) + DigitValue(s[Len(s)])

\* the binding dict with the port converted by int()
BindingIntPort(row, m) ==
    [type       |-> PyStr(ItemText(row, m, BindingGroups[1])),
     ip_address |-> PyStr(ItemText(row, m, BindingGroups[2])),
     port       |-> PyInt(ToInt(ItemText(row, m, BindingGroups[3]))),
     host_name  |-> PyStr(ItemText(row, m, BindingGroups[4]))]

\* the binding dict built from the groups of a match (every group is a str)
Binding(row, m) ==
    [type       |-> PyStr(ItemText(row, m, BindingGroups[1])),
     ip_address |-> PyStr(ItemText(row, m, BindingGroups[2])),
     port       |-> PyStr(ItemText(row, m, BindingGroups[3])),
     host_name  |-> PyStr(ItemText(row, m, BindingGroups[4]))]

RECURSIVE ParseBindingRows(_)
\* the loop over the fragments: a fragment the pattern does not match makes
\* matches None, matches.group raises, and the bare except skips it
ParseBindingRows(rows) ==
    IF rows = <<>> THEN <<>>
    ELSE LET m == ReSearch(BindingPattern, Head(rows))
         IN  (IF m.ok THEN << Binding(Head(rows), m) >> ELSE <<>>)
             \o ParseBindingRows(Tail(rows))

ParseBindings(input) == ParseBindingRows(Split(input, <<",">>))

(***************************************************************************)
(* Importer._parse_iis_sites                                               *)
(***************************************************************************)
\* the three groups of the row pattern on a stripped row
RowFields(row) ==
    LET m == ReSearch(RowPattern, row)
    IN  IF m.ok
        THEN [ok |-> TRUE,
              name     |-> ItemText(row, m, RowGroups[1]),
              state    |-> ItemText(row, m, RowGroups[2]),
              bindings |-> ItemText(row, m, RowGroups[3])]
        ELSE [ok |-> FALSE, name |-> <<>>, state |-> <<>>, bindings |-> <<>>]

\* the site dict of a matched row
Site(f) ==
    [name     |-> PyStr(f.name),
     state    |-> PyStr(f.state),
     bindings |-> ParseBindings(f.bindings)]

RECURSIVE ParseRowsAbort(_)
\* the loop over the rows leaving at the first row that does not match
ParseRowsAbort(rows) ==
    IF rows = <<>> THEN <<>>
    ELSE IF Head(rows) = <<>> THEN ParseRowsAbort(Tail(rows))
    ELSE LET f == RowFields(Strip(Head(rows)))
         IN  IF f.ok THEN << Site(f) >> \o ParseRowsAbort(Tail(rows))
             ELSE <<>>

RECURSIVE ParseRows(_)
\* the loop over the rows: empty rows are skipped, a row the pattern does not
\* match raises inside the try and is skipped
ParseRows(rows) ==
    IF rows = <<>> THEN <<>>
    ELSE IF Head(rows) = <<>> THEN ParseRows(Tail(rows))
    ELSE LET f == RowFields(Strip(Head(rows)))
         IN  (IF f.ok THEN << Site(f) >> ELSE <<>>) \o ParseRows(Tail(rows))

\* the list _parse_iis_sites returns for decoded text
ParseText(input) == ParseRows(Split(input, <<"\r", "\n">>))

(***************************************************************************)
(* Importer._compile_sites_objects                                         *)
(***************************************************************************)
\* the lookup that finds nothing
AttributesForNone(site_name, attrs) == <<>>

\* the attributes of a site: site_attributes[site_name] when the name is a
\* key, else {}
AttributesFor(site_name, attrs) ==
    IF site_name \in DOMAIN attrs THEN attrs[site_name] ELSE <<>>

RECURSIVE CompileLoopCopy(_, _, _, _)
\* the loop over the sites appending a fresh copy of each site
CompileLoopCopy(todo, attrs, h, objects) ==
    IF todo = <<>> THEN [heap |-> h, objects |-> objects]
    ELSE LET site == h[Head(todo)]
             copy == SetItem(site, "attributes",
                             AttributesFor(site["name"].s, attrs))
         IN  CompileLoopCopy(Tail(todo), attrs, Append(h, copy),
                             Append(objects, Len(h) + 1))

RECURSIVE CompileLoop(_, _, _, _)
\* the loop over the sites: site['attributes'] = attributes stores into the
\* site object itself, objects.append(site) appends that same object
CompileLoop(todo, attrs, h, objects) ==
    IF todo = <<>> THEN [heap |-> h, objects |-> objects]
    ELSE LET id == Head(todo)
             site == h[id]
             attributes == AttributesFor(site["name"].s, attrs)
         IN  CompileLoop(Tail(todo), attrs,
                         [h EXCEPT ![id] = SetItem(site, "attributes", attributes)],
                         Append(objects, id))

(***************************************************************************)
(* Importer._parse_conf                                                    *)
(***************************************************************************)
\* the keys _parse_conf reads with conf[key], and the attribute each sets
ConfAttr ==
    [winrm_url      |-> "winrm_url",
     winrm_username |-> "winrm_username",
     winrm_password |-> "winrm_password",
     winrm_insecure |-> "winrm_insecure",
     template_file  |-> "template_file_path",
     output_file    |-> "output_file_path",
     reload_icinga  |-> "reload_icinga"]

ConfKeys == DOMAIN ConfAttr \cup {"site_attributes"}

\* the instance after _parse_conf(conf), for a conf holding every key
ParseConf(obj, c) ==
    LET truthy == {k \in DOMAIN ConfAttr : Truthy(c[k])}
        assigned == [a \in {ConfAttr[k] : k \in truthy} |->
                        c[CHOOSE k \in truthy : ConfAttr[k] = a]]
        attrs == IF Truthy(c["site_attributes"]) THEN c["site_attributes"]
                 ELSE PyDict(<<>>)
    IN  ("site_attributes" :> attrs) @@ assigned @@ obj

(***************************************************************************)
(* The inputs: the table printed by the remote command, and the            *)
(* configuration file.                                                     *)
(***************************************************************************)
Chars_s1 == <<"s", "1">>
Chars_s2 == <<"s", "2">>
Chars_Started == <<"S", "t", "a", "r", "t", "e", "d">>
Chars_NotStarted == <<"N", "o", "t", " ", "S", "t", "a", "r", "t", "e", "d">>

\* a binding fragment in the shape <proto> <addr>:<port>:<host>, after `lead`
\* spaces
GoodFrag(lead, type, ip_address, port, host_name) ==
    [ok |-> TRUE, lead |-> lead, type |-> type, ip_address |-> ip_address,
     port |-> port, host_name |-> host_name]

\* a fragment that is not in that shape
BadFrag(text) == [ok |-> FALSE, text |-> text]

Frag_http(lead) ==
    GoodFrag(lead, <<"h", "t", "t", "p">>, <<"*">>, <<"8", "0">>, <<"a", ".", "b">>)

Frag_ftp(lead) ==
    GoodFrag(lead, <<"f", "t", "p">>, <<"1", ":", "2">>, <<"2", "1">>, <<"x">>)

\* empty, blank, without a host name, with a port that is not a number
BadFrags ==
    { BadFrag(<<>>), BadFrag(<<" ">>),
      BadFrag(<<"f", "t", "p", " ", "*", ":", "8", "0">>),
      BadFrag(<<"f", "t", "p", " ", "*", ":", "x", ":", "a">>) }

\* a fragment follows the comma directly or after one space
Frags == {Frag_http(lead) : lead \in 0..1} \cup {Frag_ftp(lead) : lead \in 0..1}
         \cup BadFrags

FragText(f) ==
    IF f.ok
    THEN Spaces(f.lead) \o f.type \o <<" ">> \o f.ip_address \o <<":">>
         \o f.port \o <<":">> \o f.host_name
    ELSE f.text

\* the text between the braces
FragsText(frags) == Join([i \in 1..Len(frags) |-> FragText(frags[i])], <<",">>)

\* the lists of 1..MaxFrags fragments with some text between the braces, the
\* first fragment directly after the opening brace
FragLists ==
    { fl \in UNION {[1..n -> Frags] : n \in 1..MaxFrags} :
        /\ FragsText(fl) # <<>>
        /\ fl[1].ok => fl[1].lead = 0 }

\* a table row <name> <state> {<bindings>}
SiteRow(name, gap1, state, gap2, frags) ==
    [kind |-> "site", name |-> name, gap1 |-> gap1, state |-> state,
     gap2 |-> gap2, frags |-> frags]

\* any other line of text
NoiseRow(text) == [kind |-> "noise", text |-> text]

\* output bytes that are not text
BytesRow(bytes) == [kind |-> "bytes", bytes |-> bytes]

RowText(r) ==
    IF r.kind = "site"
    THEN r.name \o Spaces(r.gap1) \o r.state \o Spaces(r.gap2)
         \o <<"{">> \o FragsText(r.frags) \o <<"}">>
    ELSE r.text

RowBytes(r) == IF r.kind = "bytes" THEN r.bytes ELSE Encode(RowText(r))

\* the bytes of the table: the rows joined by CRLF
ListingBytes(l) == Join([i \in 1..Len(l) |-> RowBytes(l[i])], <<13, 10>>)

Row_s1 == SiteRow(Chars_s1, 1, Chars_Started, 1, << Frag_http(0), BadFrag(<<>>) >>)
Row_s2 == SiteRow(Chars_s2, 1, Chars_NotStarted, 1, << Frag_ftp(0) >>)

Noise_Empty == NoiseRow(<<>>)
Noise_Blank == NoiseRow(<<" ", " ">>)
Noise_NoBraces == NoiseRow(<<"b", "a", "d", " ", "r", "o", "w">>)
Noise_EmptyBraces == NoiseRow(Chars_s1 \o <<" ">> \o Chars_Started \o <<" ", "{", "}">>)
Noise_Trailing == NoiseRow(RowText(Row_s1) \o <<" ", "x">>)
Undecodable == BytesRow(<<255>>)

\* one row of every shape
SingleRowListings ==
    { << SiteRow(Chars_s1, g1, Chars_Started, g2, fl) >> :
        g1 \in 1..MaxGap, g2 \in 1..MaxGap, fl \in FragLists }
    \cup { << Noise_Empty >>, << Noise_Blank >>, << Noise_NoBraces >>,
           << Noise_EmptyBraces >>, << Noise_Trailing >>, << Undecodable >> }

\* 2..MaxRows rows, sites and noise interleaved
MultiRowListings ==
    UNION { [1..n -> {Row_s1, Row_s2, Noise_Empty, Noise_Blank, Noise_NoBraces}] :
            n \in 2..MaxRows }

ParserListings == {<<>>} \cup SingleRowListings \cup MultiRowListings

\* the outputs a whole run is followed on
PipelineListings ==
    { <<>>, << Row_s1 >>, << Noise_Empty, Row_s1, Row_s2, Noise_Empty >>,
      << Row_s1, Noise_NoBraces, Row_s1 >>, << Noise_NoBraces >>,
      << Undecodable >> }

\* site_attributes of the configuration file: none, one for s1 and one for a
\* name that is no site, one for each site
AttributeMaps ==
    { <<>>,
      (Chars_s1 :> [notes |-> "critical"]) @@ (<<"s">> :> [notes |-> "unused"]),
      (Chars_s1 :> [notes |-> "critical"]) @@ (Chars_s2 :> [vars |-> "x"]) }

\* a configuration file holding every key, all but two of them empty
FullConf(attrs, reload) ==
    [k \in ConfKeys |->
        IF k = "site_attributes" THEN attrs
        ELSE IF k = "reload_icinga" THEN PyBool(reload)
        ELSE PyNone]

Confs ==
    { FullConf(PyDict(m), r) : m \in AttributeMaps, r \in BOOLEAN }
    \cup { FullConf(PyNone, FALSE) }
    \cup { [k \in ConfKeys \ {"site_attributes"} |-> PyNone] }

(***************************************************************************)
(* The run: __init__ from the configuration file on, then handle().        *)
(***************************************************************************)
NotRaised == [exc |-> "", where |-> ""]

Raise(exc, where) ==
    /\ raised' = [exc |-> exc, where |-> where]
    /\ pc' = "crashed"

\* the instance after _manage_arguments
Arguments(conf_file, reload) ==
    [debug              |-> PyBool(FALSE),
     winrm_url          |-> PyStr(<<"h", "t", "t", "p">>),
     winrm_username     |-> PyNone,
     winrm_password     |-> PyNone,
     winrm_insecure     |-> PyBool(FALSE),
     output_file_path   |-> PyStr(<<"o">>),
     template_file_path |-> PyStr(<<"t">>),
     icinga2_reload     |-> PyBool(reload),
     conf_file          |-> conf_file]

Init ==
    /\ pc = "init"
    /\ self \in { Arguments(f, r) : f \in {PyNone, PyStr(<<"x">>)}, r \in BOOLEAN }
    /\ conf = <<>>
    /\ std_out = <<>>
    /\ listing = <<>>
    /\ heap = <<>>
    /\ iis_sites = <<>>
    /\ site_attributes = PyNone
    /\ sites = <<>>
    /\ output_file = [written |-> FALSE, sites |-> <<>>]
    /\ log = <<>>
    /\ raised = NotRaised

\* __init__: load and parse the configuration file if one was given
LoadConf ==
    /\ pc = "init"
    /\ IF self["conf_file"].py = "None"
       THEN /\ pc' = "handle"
            /\ UNCHANGED <<self, conf, raised>>
       ELSE \E c \in Confs :
              /\ conf' = c
              /\ IF ConfKeys \subseteq DOMAIN c
                 THEN /\ self' = ParseConf(self, c)
                      /\ pc' = "handle"
                      /\ UNCHANGED raised
                 ELSE /\ Raise("KeyError", "_parse_conf")
                      /\ UNCHANGED self
    /\ UNCHANGED <<std_out, listing, heap, iis_sites, site_attributes, sites,
                   output_file, log>>

\* handle(): connect, run the command, keep its output
ExecutePs ==
    /\ pc = "handle"
    /\ \/ \E l \in PipelineListings :
            /\ listing' = l
            /\ std_out' = ListingBytes(l)
            /\ log' = Append(log, "Command output")
            /\ pc' = "parse"
            /\ UNCHANGED raised
       \/ /\ Raise("WinRMError", "_execute_ps")
          /\ UNCHANGED <<listing, std_out, log>>
    /\ UNCHANGED <<self, conf, heap, iis_sites, site_attributes, sites, output_file>>

\* iis_sites = self._parse_iis_sites(std_out)
ParseIisSites ==
    /\ pc = "parse"
    /\ IF Decodable(std_out)
       THEN LET parsed == ParseText(Decode(std_out))
            IN  /\ heap' = heap \o parsed
                /\ iis_sites' = [i \in 1..Len(parsed) |-> Len(heap) + i]
                /\ log' = Append(log, "IIS Sites")
                /\ pc' = "get_attributes"
                /\ UNCHANGED raised
       ELSE /\ Raise("UnicodeDecodeError", "_parse_iis_sites")
            /\ UNCHANGED <<heap, iis_sites, log>>
    /\ UNCHANGED <<self, conf, std_out, listing, site_attributes, sites, output_file>>

\* site_attributes = self._get_attributes()
GetAttributes ==
    /\ pc = "get_attributes"
    /\ IF "site_attributes" \in DOMAIN self
       THEN /\ site_attributes' = self["site_attributes"]
            /\ log' = Append(log, "Site attributes")
            /\ pc' = "compile"
            /\ UNCHANGED raised
       ELSE /\ Raise("AttributeError", "_get_attributes")
            /\ UNCHANGED <<site_attributes, log>>
    /\ UNCHANGED <<self, conf, std_out, listing, heap, iis_sites, sites, output_file>>

\* sites = self._compile_sites_objects(iis_sites, site_attributes)
CompileSitesObjects ==
    /\ pc = "compile"
    /\ LET r == CompileLoop(iis_sites, site_attributes.d, heap, <<>>)
       IN  /\ heap' = r.heap
           /\ sites' = r.objects
    /\ log' = Append(log, "Sites objects")
    /\ pc' = "write"
    /\ UNCHANGED <<self, conf, std_out, listing, iis_sites, site_attributes,
                   output_file, raised>>

\* self._write_output_file(template, output, sites): the template is loaded
\* and rendered outside the try, the file is written inside it
WriteOutputFile ==
    /\ pc = "write"
    /\ \E outcome \in {"written", "template error", "write error"} :
         CASE outcome = "written" ->
                /\ output_file' = [written |-> TRUE,
                                   sites |-> [i \in 1..Len(sites) |-> heap[sites[i]]]]
                /\ log' = Append(log, "File written")
                /\ pc' = "reload"
                /\ UNCHANGED raised
           [] outcome = "write error" ->
                /\ log' = Append(log, "Error writing file")
                /\ pc' = "reload"
                /\ UNCHANGED <<output_file, raised>>
           [] outcome = "template error" ->
                /\ Raise("TemplateError", "_write_output_file")
                /\ UNCHANGED <<output_file, log>>
    /\ UNCHANGED <<self, conf, std_out, listing, heap, iis_sites, site_attributes, sites>>

\* handle(): reload Icinga 2 if asked to; _reload_icinga catches every error
ReloadIcinga ==
    /\ pc = "reload"
    /\ IF self["icinga2_reload"].b
       THEN \E outcome \in {"Icinga2 succesfully reloaded", "Error during Icinga2 reload",
                           "Cannot reload Icinga2"} :
              log' = log \o <<"Reloading Icinga2", outcome>>
       ELSE log' = Append(log, "Icinga2 reload not needed")
    /\ pc' = "done"
    /\ UNCHANGED <<self, conf, std_out, listing, heap, iis_sites, site_attributes,
                   sites, output_file, raised>>

Next ==
    \/ LoadConf
    \/ ExecutePs
    \/ ParseIisSites
    \/ GetAttributes
    \/ CompileSitesObjects
    \/ WriteOutputFile
    \/ ReloadIcinga

Spec == Init /\ [][Next]_vars

(***************************************************************************)
(* The parser and the merger alone: the run stands before the call of      *)
(* _parse_iis_sites with any output of ParserListings in std_out.          *)
(***************************************************************************)
InitParse ==
    /\ pc = "parse"
    /\ \/ /\ conf = <<>>
          /\ self = Arguments(PyNone, FALSE)
       \/ /\ conf \in { FullConf(PyDict(m), FALSE) : m \in AttributeMaps }
          /\ self = ParseConf(Arguments(PyStr(<<"x">>), FALSE), conf)
    /\ listing \in ParserListings
    /\ std_out = ListingBytes(listing)
    /\ heap = <<>>
    /\ iis_sites = <<>>
    /\ site_attributes = PyNone
    /\ sites = <<>>
    /\ output_file = [written |-> FALSE, sites |-> <<>>]
    /\ log = << "Command output" >>
    /\ raised = NotRaised

NextParse ==
    \/ ParseIisSites
    \/ GetAttributes
    \/ CompileSitesObjects

SpecParse == InitParse /\ [][NextParse]_vars

(***************************************************************************)
(* Properties.  `listing` says which rows the remote host printed and how  *)
(* each was built; the properties compare what the code made of the bytes  *)
(* with it.                                                                *)
(***************************************************************************)
Logged(msg) == \E k \in 1..Len(log) : log[k] = msg

IsSiteRow(r) == r.kind = "site"

\* the rows of the listing in the shape <name> <state> {<bindings>}
SiteRows == SelectSeq(listing, IsSiteRow)

\* the site dict the parser made at position i
ParsedSite(i) == heap[iis_sites[i]]

IsGoodFrag(f) == f.ok

\* the Binding of a well-formed fragment, the port as text
ExpectedBinding(f) ==
    [type       |-> PyStr(f.type),
     ip_address |-> PyStr(f.ip_address),
     port       |-> PyStr(f.port),
     host_name  |-> PyStr(f.host_name)]

\* the Binding of a well-formed fragment, the port as an integer
ExpectedBindingIntPort(f) ==
    [type       |-> PyStr(f.type),
     ip_address |-> PyStr(f.ip_address),
     port       |-> PyInt(ToInt(f.port)),
     host_name  |-> PyStr(f.host_name)]

\* the Bindings of the well-formed fragments of a row, in source order
ExpectedBindings(r) ==
    LET good == SelectSeq(r.frags, IsGoodFrag)
    IN  [j \in 1..Len(good) |-> ExpectedBinding(good[j])]

\* C1: a row in the row shape whose braces hold k >= 1 well-formed fragments
\* (each possibly after a space) yields a Site with exactly k Bindings, in
\* the order of the fragments.
C1_EveryWellFormedFragmentIsABinding ==
    Logged("IIS Sites") =>
        \A i \in 1..Len(SiteRows) :
            (\A j \in 1..Len(SiteRows[i].frags) : SiteRows[i].frags[j].ok) =>
                /\ i <= Len(iis_sites)
                /\ Len(ParsedSite(i)["bindings"]) = Len(SiteRows[i].frags)
                /\ \A j \in 1..Len(SiteRows[i].frags) :
                     ParsedSite(i)["bindings"][j]["host_name"]
                         = PyStr(SiteRows[i].frags[j].host_name)

\* C2: for a well-formed row, with one or more whitespace characters between
\* the fields, the row pattern returns the name, the state text without
\* leading or trailing whitespace, and the text between the braces.
C2_RowExtractorReturnsTrimmedState ==
    Logged("IIS Sites") =>
        \A i \in 1..Len(SiteRows) :
            /\ RowFields(Strip(RowText(SiteRows[i])))
                 = [ok |-> TRUE, name |-> SiteRows[i].name,
                    state |-> SiteRows[i].state,
                    bindings |-> FragsText(SiteRows[i].frags)]
            /\ i <= Len(iis_sites)
            /\ ParsedSite(i)["state"] = PyStr(SiteRows[i].state)

\* C3 (as stated): a well-formed fragment <proto> <addr>:<port>:<host> gives
\* a Binding with those four fields whose port is the integer value of the
\* port token.
C3_PortIsInteger ==
    Logged("IIS Sites") =>
        \A i \in 1..Len(SiteRows) :
            \A j \in 1..Len(SiteRows[i].frags) :
                LET f == SiteRows[i].frags[j]
                IN  (f.ok /\ f.lead = 0) =>
                      /\ i <= Len(iis_sites)
                      /\ \E k \in 1..Len(ParsedSite(i)["bindings"]) :
                           ParsedSite(i)["bindings"][k] = ExpectedBindingIntPort(f)

\* C3 (amended): a well-formed fragment <proto> <addr>:<port>:<host> gives a
\* Binding with those four fields, the address being everything between the
\* first whitespace and the last two colon-delimited groups, and the port
\* being the text of the port token: every field of a Binding is a str.
C3_PortIsText ==
    Logged("IIS Sites") =>
        \A i \in 1..Len(SiteRows) :
            /\ i <= Len(iis_sites)
            /\ \A j \in 1..Len(SiteRows[i].frags) :
                 LET f == SiteRows[i].frags[j]
                 IN  (f.ok /\ f.lead = 0) =>
                       \E k \in 1..Len(ParsedSite(i)["bindings"]) :
                          ParsedSite(i)["bindings"][k] = ExpectedBinding(f)
            /\ \A k \in 1..Len(ParsedSite(i)["bindings"]) :
                 \A field \in {"type", "ip_address", "port", "host_name"} :
                    ParsedSite(i)["bindings"][k][field].py = "str"

\* a parsed row holding the fragment `ftp 1:2:21:x`, whose address has a colon
C3_Witness ==
    /\ Logged("IIS Sites")
    /\ Len(SiteRows) = 1
    /\ Len(iis_sites) = 1
    /\ \E j \in 1..Len(SiteRows[1].frags) : SiteRows[1].frags[j] = Frag_ftp(0)
    /\ \E k \in 1..Len(ParsedSite(1)["bindings"]) :
         /\ ParsedSite(1)["bindings"][k]["port"] = PyStr(<<"2", "1">>)
         /\ ParsedSite(1)["bindings"][k]["ip_address"] = PyStr(<<"1", ":", "2">>)

\* C4: the parser returns one Site per row in the row shape and nothing
\* else, in row order: with noise rows among N such rows it returns N sites
\* named as those rows are, in order.
C4_OneSitePerValidRowInOrder ==
    Logged("IIS Sites") =>
        /\ Len(iis_sites) = Len(SiteRows)
        /\ \A i \in 1..Len(SiteRows) : ParsedSite(i)["name"] = PyStr(SiteRows[i].name)

\* a noise row between two site rows, parsed into two sites
C4_Witness ==
    /\ Logged("IIS Sites")
    /\ Len(listing) = 3
    /\ listing[1].kind = "site"
    /\ listing[2] = Noise_NoBraces
    /\ listing[3].kind = "site"
    /\ listing[1].name # listing[3].name
    /\ Len(iis_sites) = 2

\* C5: no error leaves _parse_iis_sites or _compile_sites_objects, whatever
\* the input: empty, malformed, or bytes that cannot be decoded.
C5_NoErrorLeavesParserOrMerger ==
    raised.where \notin {"_parse_iis_sites", "_compile_sites_objects"}

\* the step of handle() that calls _compile_sites_objects
MergeStep == pc = "compile" /\ pc' = "write"

\* C6: the merger returns as many entries as it was given; entry i has the
\* name, state and bindings of input i, and as attributes the map's entry for
\* that name if the name is a key, else an empty mapping.
C6_MergeKeepsSitesAndAttachesAttributes ==
    [][MergeStep =>
        /\ Len(sites') = Len(iis_sites)
        /\ \A i \in 1..Len(iis_sites) :
             LET before == heap[iis_sites[i]]
                 after == heap'[sites'[i]]
                 name == before["name"].s
             IN  /\ after["name"] = before["name"]
                 /\ after["state"] = before["state"]
                 /\ after["bindings"] = before["bindings"]
                 /\ "attributes" \in DOMAIN after
                 /\ after["attributes"] =
                      IF name \in DOMAIN site_attributes.d
                      THEN site_attributes.d[name] ELSE <<>>
    ]_vars

\* merged: two sites of one name, a site with attributes, a site without, and
\* a key of the map that names no site
C6_Witness ==
    /\ pc = "write"
    /\ \E i, j \in 1..Len(sites) :
         /\ i # j
         /\ heap[sites[i]]["name"] = heap[sites[j]]["name"]
         /\ heap[sites[i]]["attributes"] # <<>>
    /\ \E i \in 1..Len(sites) : heap[sites[i]]["attributes"] = <<>>
    /\ \E key \in DOMAIN site_attributes.d :
         \A i \in 1..Len(sites) : heap[sites[i]]["name"].s # key

\* C7: in every run of handle() the merger is called with a mapping, an empty
\* one when no attributes are configured, so the run reaches the merge.
C7_MergerAlwaysGetsAMapping ==
    /\ raised.where # "_get_attributes"
    /\ pc = "get_attributes" => "site_attributes" \in DOMAIN self

\* C8: in a row in the row shape, a fragment that does not parse is dropped
\* alone: the Site is emitted and its bindings are exactly the well-formed
\* fragments, in source order.
C8_BadFragmentIsDroppedAlone ==
    Logged("IIS Sites") =>
        /\ Len(iis_sites) = Len(SiteRows)
        /\ \A i \in 1..Len(SiteRows) :
             ParsedSite(i)["bindings"] = ExpectedBindings(SiteRows[i])

\* C9 (as stated): the merger changes neither the site records it is given
\* nor the override map.
C9_MergerLeavesItsInputsUnchanged ==
    [][MergeStep =>
        /\ site_attributes' = site_attributes
        /\ self' = self
        /\ \A i \in 1..Len(iis_sites) : heap'[iis_sites[i]] = heap[iis_sites[i]]
    ]_vars

\* C9 (amended): the merger leaves the override map unchanged; each site
\* record it is given keeps its name, state and bindings and gains the key
\* `attributes`, and the returned sequence holds those same records.
C9_MergerAddsAttributesInPlace ==
    [][MergeStep =>
        /\ site_attributes' = site_attributes
        /\ self' = self
        /\ sites' = iis_sites
        /\ \A i \in 1..Len(iis_sites) :
             LET before == heap[iis_sites[i]]
                 after == heap'[iis_sites[i]]
             IN  /\ DOMAIN after = DOMAIN before \cup {"attributes"}
                 /\ \A key \in DOMAIN before : after[key] = before[key]
    ]_vars

\* merged: the parser's list and the merger's list hold the same records,
\* which now have attributes
C9_Witness ==
    /\ pc = "write"
    /\ Len(iis_sites) >= 2
    /\ sites = iis_sites
    /\ \A i \in 1..Len(iis_sites) : "attributes" \in DOMAIN heap[iis_sites[i]]
    /\ \E i \in 1..Len(iis_sites) : heap[iis_sites[i]]["attributes"] # <<>>

\* C10: the reload happens only after the output file was successfully
\* written in the same run, the steps coming in the order parse, merge, write,
\* reload.
C10_ReloadOnlyAfterSuccessfulWrite ==
    \A k \in 1..Len(log) :
        log[k] = "Reloading Icinga2" =>
            /\ output_file.written
            /\ \E a, b, c \in 1..Len(log) :
                 /\ a < b /\ b < c /\ c < k
                 /\ log[a] = "IIS Sites"
                 /\ log[b] = "Sites objects"
                 /\ log[c] = "File written"

\* The order alone: a reload comes after parse, merge and the return of
\* _write_output_file, which either wrote the file or logged a write error.
StepsInOrder ==
    \A k \in 1..Len(log) :
        log[k] = "Reloading Icinga2" =>
            \E a, b, c \in 1..Len(log) :
                /\ a < b /\ b < c /\ c < k
                /\ log[a] = "IIS Sites"
                /\ log[b] = "Sites objects"
                /\ log[c] \in {"File written", "Error writing file"}

====
